---- MODULE Spec2Model ----
(***************************************************************************)
(* A model of rust-script-bundler: the token renderer (src/print.rs), the   *)
(* manifest embedder and the Bundler pipeline (src/lib.rs) and the command  *)
(* line program (src/bin/rust-script-bundle.rs).                            *)
(*                                                                         *)
(* Text is a sequence of pieces: " ", "\n", or a string standing for a run  *)
(* of characters that the code writes as a whole (a token's text, a fixed   *)
(* line such as the shebang).                                              *)
(***************************************************************************)
EXTENDS Naturals, Integers, Sequences, FiniteSets, TLC

VARIABLES
    pc,        \* position of the operation being run
    tokens,    \* SpecTokens: the TokenStream handed to write_tokens_normalized
    out,       \* SpecTokens: the text written to the formatter
    content,   \* SpecManifest: the manifest text handed to new_manifest_comment
    attrs,     \* SpecManifest: the attributes it returned
    file,      \* SpecPrinter: the syn::File handed to FilePrinter
    printed,   \* SpecPrinter: the text FilePrinter::fmt wrote
    world,     \* what the file system and the collaborators answer (fixed in a run)
    bundler,   \* the Bundler: crates, manifest_str, the manifest's lib entry
    binary,    \* bundle: <<>> or <<the root syn::File>>
    libs,      \* bundle: the modulized auxiliary units collected so far
    result,    \* bundle: "none", "Ok", "Err" or "Panic"
    fs,        \* the output directory and the target file
    events,    \* bundle: the calls made so far, in order
    cli        \* the command line program: its arguments, exit code and stderr

printerVars == <<tokens, out, content, attrs, file, printed>>
bundleVars == <<world, bundler, binary, libs, result, fs, events, cli>>
vars == <<pc, tokens, out, content, attrs, file, printed,
          world, bundler, binary, libs, result, fs, events, cli>>

(***************************************************************************)
(* Bounds of the model.                                                    *)
(***************************************************************************)
MaxToks == 3        \* longest leaf-only token stream
MaxGroupLen == 4    \* longest bracket group behind a '#'
MaxManifest == 4    \* longest manifest text, in characters
MaxItems == 3       \* most top-level items of a printed file
MaxCrates == 2      \* most auxiliary units registered on a Bundler

(***************************************************************************)
(* Sequences helpers.                                                      *)
(***************************************************************************)
SeqsUpTo(S, n) == UNION {[1..k -> S] : k \in 0..n}

RECURSIVE Flatten(_)
Flatten(ss) == IF ss = <<>> THEN <<>> ELSE Head(ss) \o Flatten(Tail(ss))

(***************************************************************************)
(* proc_macro2::TokenTree.  Every token is a record of the same shape; the  *)
(* fields a variant does not have are left at a default.                   *)
(***************************************************************************)
Ident(s) ==
    [kind |-> "Ident", text |-> <<s>>, spacing |-> "Alone",
     delimiter |-> "None", stream |-> <<>>]

Punct(ch, sp) ==
    [kind |-> "Punct", text |-> <<ch>>, spacing |-> sp,
     delimiter |-> "None", stream |-> <<>>]

Literal(txt) ==
    [kind |-> "Literal", text |-> txt, spacing |-> "Alone",
     delimiter |-> "None", stream |-> <<>>]

Group(d, s) ==
    [kind |-> "Group", text |-> <<>>, spacing |-> "Alone",
     delimiter |-> d, stream |-> s]

(***************************************************************************)
(* String literals.  A string is a sequence of characters; the literal's   *)
(* source text is the string escaped and put between double quotes, and    *)
(* Lit::new / LitStr::value decode it again.                               *)
(***************************************************************************)
RECURSIVE Escape(_)
Escape(s) ==
    IF s = <<>> THEN <<>>
    ELSE (IF Head(s) \in {"\"", "\\"} THEN <<"\\", Head(s)>> ELSE <<Head(s)>>)
         \o Escape(Tail(s))

RECURSIVE Unescape(_)
Unescape(s) ==
    IF s = <<>> THEN <<>>
    ELSE IF Head(s) = "\\" /\ Len(s) >= 2
         THEN <<s[2]>> \o Unescape(Tail(Tail(s)))
         ELSE <<Head(s)>> \o Unescape(Tail(s))

\* quote's ToTokens for a String: Literal::string
LitString(s) == Literal(<<"\"">> \o Escape(s) \o <<"\"">>)

\* syn::Lit::new(lit) is Lit::Str exactly for a double-quoted literal
IsLitStr(lit) == Len(lit.text) >= 2 /\ Head(lit.text) = "\""

\* LitStr::value(): the decoded string
LitStrValue(lit) == Unescape(SubSeq(lit.text, 2, Len(lit.text) - 1))

(***************************************************************************)
(* as_doc_comment: Some(value) is <<value>>, None is <<>>.                 *)
(***************************************************************************)
as_doc_comment(first, second) ==
    IF /\ first.kind = "Punct" /\ second.kind = "Group"
       /\ first.text = <<"#">> /\ second.delimiter = "Bracket"
    THEN LET s == second.stream
         IN IF /\ Len(s) >= 3
               /\ s[1].kind = "Ident" /\ s[2].kind = "Punct" /\ s[3].kind = "Literal"
               /\ s[1].text = <<"doc">> /\ s[2].text = <<"=">>
               /\ IsLitStr(s[3])
            THEN <<LitStrValue(s[3])>>
            ELSE <<>>
    ELSE <<>>

(***************************************************************************)
(* write_tokens_normalized                                                 *)
(***************************************************************************)
\* the (start, end) pair of a delimiter
DelimStart(d) ==
    CASE d = "Parenthesis" -> <<"(">>
      [] d = "Brace"       -> <<"{", "\n">>
      [] d = "Bracket"     -> <<"[">>
      [] OTHER             -> <<>>

DelimEnd(d) ==
    CASE d = "Parenthesis" -> <<")">>
      [] d = "Brace"       -> <<"}", "\n">>
      [] d = "Bracket"     -> <<"]">>
      [] OTHER             -> <<>>

\* the space written before a token
Separator_IgnoresJoint(first, joint) == IF ~first THEN <<" ">> ELSE <<>>

Separator(first, joint) == IF ~first /\ ~joint THEN <<" ">> ELSE <<>>

\* what a punctuation token writes
WritePunct(tt) == tt.text \o (IF tt.text = <<";">> THEN <<"\n">> ELSE <<>>)

\* the joint flag a token leaves for the next one
JointAfter(tt) == tt.kind = "Punct" /\ tt.spacing = "Joint"

RECURSIVE write_tokens_normalized(_)
RECURSIVE WriteLoop(_, _, _, _)

\* what a group writes
WriteGroup(tt) ==
    IF tt.stream = <<>>
    THEN DelimStart(tt.delimiter) \o <<" ">> \o DelimEnd(tt.delimiter)
    ELSE DelimStart(tt.delimiter) \o <<" ">>
         \o write_tokens_normalized(tt.stream)
         \o <<" ">> \o DelimEnd(tt.delimiter) \o <<"\n">>

\* the match on the token's variant
WriteToken(tt) ==
    CASE tt.kind = "Group" -> WriteGroup(tt)
      [] tt.kind = "Punct" -> WritePunct(tt)
      [] OTHER             -> tt.text

\* the while loop, from token i on, with the loop's two flags
WriteLoop(toks, i, first, joint) ==
    IF i > Len(toks) THEN <<>>
    ELSE LET tt == toks[i]
             comment == IF i < Len(toks) THEN as_doc_comment(tt, toks[i + 1]) ELSE <<>>
         IN Separator(first, joint) \o
            (IF comment # <<>>
             THEN <<"///">> \o comment[1] \o <<"\n">>
                  \o WriteLoop(toks, i + 2, FALSE, FALSE)
             ELSE WriteToken(tt) \o WriteLoop(toks, i + 1, FALSE, JointAfter(tt)))

write_tokens_normalized(toks) == WriteLoop(toks, 1, TRUE, FALSE)

(***************************************************************************)
(* SpecTokens: write_tokens_normalized applied to bounded token streams.   *)
(***************************************************************************)
LeafTokens ==
    { Ident("doc"), Ident("x"),
      Punct("#", "Alone"), Punct("=", "Alone"),
      Punct(";", "Alone"), Punct(";", "Joint"), Punct(":", "Joint"),
      LitString(<<"h">>), Literal(<<"1">>) }

GroupTokens == { Ident("doc"), Ident("x"), Punct("=", "Alone"),
                 LitString(<<"h">>), LitString(<<"\"">>), Literal(<<"1">>) }

LeafStreams == SeqsUpTo(LeafTokens, MaxToks)

AttrStreams ==
    { <<Punct("#", "Alone"), Group(d, body)>> :
        d \in {"Bracket", "Parenthesis"}, body \in SeqsUpTo(GroupTokens, MaxGroupLen) }

IdleTokens == tokens = <<>> /\ out = <<>>
IdleManifest == content = <<>> /\ attrs = <<>>
IdlePrinter == file = <<>> /\ printed = <<>>
IdleBundle ==
    /\ world = <<>> /\ bundler = <<>> /\ binary = <<>> /\ libs = <<>>
    /\ result = "none" /\ fs = <<>> /\ events = <<>> /\ cli = <<>>

InitTokens ==
    /\ pc = "start"
    /\ tokens \in LeafStreams \cup AttrStreams
    /\ out = <<>>
    /\ IdleManifest /\ IdlePrinter /\ IdleBundle

Render ==
    /\ pc = "start"
    /\ out' = write_tokens_normalized(tokens)
    /\ pc' = "done"
    /\ UNCHANGED <<tokens, content, attrs, file, printed>>
    /\ UNCHANGED bundleVars

NextTokens == Render

SpecTokens == InitTokens /\ [][NextTokens]_vars

\* C8: a stream of leaf tokens only is written as the tokens' texts in order,
\* one space between two consecutive tokens unless the earlier one is a
\* punctuation token joined to the next, and a line break right after every ';'.
LeafOnly(toks) == \A i \in 1..Len(toks) : toks[i].kind # "Group"

ExpectedLeafText(toks) ==
    Flatten([i \in 1..Len(toks) |->
        (IF i = 1 \/ (toks[i - 1].kind = "Punct" /\ toks[i - 1].spacing = "Joint")
         THEN <<>> ELSE <<" ">>)
        \o toks[i].text
        \o (IF toks[i].kind = "Punct" /\ toks[i].text = <<";">> THEN <<"\n">> ELSE <<>>)])

C8_LeafTokensSpacing ==
    (pc = "done" /\ LeafOnly(tokens)) => out = ExpectedLeafText(tokens)

C8_Witness ==
    /\ pc = "done"
    /\ tokens = <<Punct(":", "Joint"), Punct(";", "Joint"), Ident("x")>>
    /\ out = <<":", ";", "\n", "x">>

\* C4: '#' followed by a bracket group is written as a documentation line only
\* when the group holds exactly the three tokens doc, =, string literal; every
\* other bracket group is written as an ordinary group, '#' and all its tokens
\* included.
IsAttrShape(toks) ==
    /\ Len(toks) = 2
    /\ toks[1] = Punct("#", "Alone")
    /\ toks[2].kind = "Group" /\ toks[2].delimiter = "Bracket"

ExactDocShape(s) ==
    /\ Len(s) = 3
    /\ s[1] = Ident("doc")
    /\ s[2].kind = "Punct" /\ s[2].text = <<"=">>
    /\ s[3].kind = "Literal" /\ IsLitStr(s[3])

NonWhite(t) == SelectSeq(t, LAMBDA p : p \notin {" ", "\n"})

OrdinaryGroupText(s) ==
    <<"#", "[">> \o Flatten([i \in 1..Len(s) |-> s[i].text]) \o <<"]">>

C4_DocOnlyExactThreeTokens ==
    (pc = "done" /\ IsAttrShape(tokens)) =>
        IF ExactDocShape(tokens[2].stream)
        THEN out = <<"///">> \o LitStrValue(tokens[2].stream[3]) \o <<"\n">>
        ELSE NonWhite(out) = OrdinaryGroupText(tokens[2].stream)

(***************************************************************************)
(* new_manifest_comment                                                    *)
(***************************************************************************)
\* str::lines(): the text split at line feeds, without a final empty line
RECURSIVE SplitLines(_, _)
SplitLines(s, cur) ==
    IF s = <<>> THEN (IF cur = <<>> THEN <<>> ELSE <<cur>>)
    ELSE IF Head(s) = "\n" THEN <<cur>> \o SplitLines(Tail(s), <<>>)
    ELSE SplitLines(Tail(s), Append(cur, Head(s)))

Lines(s) == SplitLines(s, <<>>)

\* the two fence lines; the piece "FENCE" stands for the three grave accents
OpenFence == <<"FENCE", "cargo">>
CloseFence == <<"FENCE">>

\* once(open fence).chain(content.lines()).chain(once(close fence))
ManifestLines_NoClosingFence(s) == <<OpenFence>> \o Lines(s)

ManifestLines(s) == <<OpenFence>> \o Lines(s) \o <<CloseFence>>

\* .map(|line| format!(" {}", line))
PrefixSpace(line) == <<" ">> \o line

\* quote! { #(#![doc = #content])* }: one inner attribute per line
QuoteInnerDoc(line) ==
    <<Punct("#", "Alone"), Punct("!", "Alone"),
      Group("Bracket", <<Ident("doc"), Punct("=", "Alone"), LitString(line)>>)>>

\* syn::Attribute::parse_inner on one quoted attribute
ParsesAsInner(ts) ==
    /\ Len(ts) = 3
    /\ ts[1] = Punct("#", "Alone") /\ ts[2] = Punct("!", "Alone")
    /\ ts[3].kind = "Group" /\ ts[3].delimiter = "Bracket"
    /\ Len(ts[3].stream) >= 1 /\ ts[3].stream[1].kind = "Ident"

ParseInner(ts) ==
    [style |-> "Inner", path |-> ts[3].stream[1].text[1],
     tokens |-> Tail(ts[3].stream)]

new_manifest_comment(s) ==
    LET ls == ManifestLines(s)
    IN [i \in 1..Len(ls) |-> ParseInner(QuoteInnerDoc(PrefixSpace(ls[i])))]

\* .expect("Just quoted input can not be wrong")
new_manifest_comment_panics(s) ==
    LET ls == ManifestLines(s)
    IN \E i \in 1..Len(ls) : ~ParsesAsInner(QuoteInnerDoc(PrefixSpace(ls[i])))

(***************************************************************************)
(* SpecManifest: new_manifest_comment applied to bounded manifest texts.   *)
(***************************************************************************)
ManifestChars == {"a", "\"", "\n"}

InitManifest ==
    /\ pc = "start"
    /\ content \in SeqsUpTo(ManifestChars, MaxManifest)
    /\ attrs = <<>>
    /\ IdleTokens /\ IdlePrinter /\ IdleBundle

Embed ==
    /\ pc = "start"
    /\ IF new_manifest_comment_panics(content)
       THEN pc' = "panicked" /\ attrs' = attrs
       ELSE pc' = "done" /\ attrs' = new_manifest_comment(content)
    /\ UNCHANGED <<content, tokens, out, file, printed>>
    /\ UNCHANGED bundleVars

NextManifest == Embed

SpecManifest == InitManifest /\ [][NextManifest]_vars

\* C5: a manifest text of N lines gives exactly N+2 attributes: the opening
\* fence, the lines in their order, the closing fence; each is an inner 'doc'
\* attribute whose payload is the line after one space; the operation never fails.
NewlinePositions(s) == {i \in 1..Len(s) : s[i] = "\n"}

LineCount(s) ==
    Cardinality(NewlinePositions(s))
    + (IF s # <<>> /\ s[Len(s)] # "\n" THEN 1 ELSE 0)

\* the k-th line: what lies between the (k-1)-th and the k-th line feed
NthLine(s, k) ==
    LET before == {i \in NewlinePositions(s) :
                      Cardinality({j \in NewlinePositions(s) : j <= i}) = k - 1}
        after  == {i \in NewlinePositions(s) :
                      Cardinality({j \in NewlinePositions(s) : j <= i}) = k}
        from   == IF k = 1 THEN 1 ELSE (CHOOSE i \in before : TRUE) + 1
        to     == IF after = {} THEN Len(s) ELSE (CHOOSE i \in after : TRUE) - 1
    IN SubSeq(s, from, to)

IsInnerDoc(a) ==
    /\ a.style = "Inner" /\ a.path = "doc"
    /\ Len(a.tokens) = 2
    /\ a.tokens[1] = Punct("=", "Alone")
    /\ a.tokens[2].kind = "Literal" /\ IsLitStr(a.tokens[2])

Payload(a) == LitStrValue(a.tokens[2])

C5_ManifestFencing ==
    /\ pc # "panicked"
    /\ pc = "done" =>
        LET n == LineCount(content)
        IN /\ Len(attrs) = n + 2
           /\ \A i \in 1..Len(attrs) : IsInnerDoc(attrs[i])
           /\ Payload(attrs[1]) = <<" ">> \o OpenFence
           /\ Payload(attrs[n + 2]) = <<" ">> \o CloseFence
           /\ \A k \in 1..n : Payload(attrs[k + 1]) = <<" ">> \o NthLine(content, k)

C5_Witness ==
    /\ pc = "done"
    /\ content = <<"a", "\n", "\"", "a">>
    /\ Len(attrs) = 4
    /\ Payload(attrs[2]) = <<" ", "a">>
    /\ Payload(attrs[3]) = <<" ", "\"", "a">>

(***************************************************************************)
(* FilePrinter::fmt.  A syn::File is a record of its shebang (<<>> for     *)
(* None, <<line>> for Some), its attributes and its items; an item is the  *)
(* token stream to_token_stream() gives for it.                            *)
(***************************************************************************)
File(sh, as, is) == [shebang |-> sh, attrs |-> as, items |-> is]

\* Display of a TokenStream, as the "{}" of attr.tokens and attr.path uses it
RECURSIVE TokenStreamDisplay(_, _, _)
TokenStreamDisplay(toks, i, joint) ==
    IF i > Len(toks) THEN <<>>
    ELSE LET tt == toks[i]
         IN (IF ~joint /\ i # 1 THEN <<" ">> ELSE <<>>)
            \o (IF tt.kind = "Group"
                THEN SubSeq(DelimStart(tt.delimiter), 1, 1)
                     \o TokenStreamDisplay(tt.stream, 1, FALSE)
                     \o SubSeq(DelimEnd(tt.delimiter), 1, 1)
                ELSE tt.text)
            \o TokenStreamDisplay(toks, i + 1, JointAfter(tt))

\* writeln!(f, "{}", shebang)
FmtShebang(f) == IF f.shebang = <<>> THEN <<>> ELSE f.shebang \o <<"\n">>

\* first pass: writeln!(f, "//!{}", attr.tokens) for the doc attributes
FmtDocAttr(a) == <<"//!">> \o TokenStreamDisplay(a.tokens, 1, FALSE) \o <<"\n">>

\* second pass: writeln!(f, "#![{}{}]", attr.path, attr.tokens) for the others
FmtOtherAttr(a) ==
    <<"#![", a.path>> \o TokenStreamDisplay(a.tokens, 1, FALSE) \o <<"]", "\n">>

IsDocAttr(a) == a.path = "doc"

FmtAttrs(f) ==
    Flatten([i \in 1..Len(f.attrs) |->
                IF IsDocAttr(f.attrs[i]) THEN FmtDocAttr(f.attrs[i]) ELSE <<>>])
    \o Flatten([i \in 1..Len(f.attrs) |->
                IF IsDocAttr(f.attrs[i]) THEN <<>> ELSE FmtOtherAttr(f.attrs[i])])

\* writeln!(f, "\n") after an item
ItemSeparator_OneLineBreak == <<"\n">>

ItemSeparator == <<"\n", "\n">>

FmtItems(f) ==
    Flatten([i \in 1..Len(f.items) |->
                write_tokens_normalized(f.items[i]) \o ItemSeparator])

\* the two assert!s on the attribute style
fmt_panics(f) == \E i \in 1..Len(f.attrs) : f.attrs[i].style # "Inner"

fmt(f) == FmtShebang(f) \o FmtAttrs(f) \o FmtItems(f)

(***************************************************************************)
(* SpecPrinter: FilePrinter::fmt applied to bounded files.                 *)
(***************************************************************************)
ItemA == <<Ident("struct"), Ident("A"), Punct(";", "Alone")>>

ItemB ==
    <<Ident("fn"), Ident("B"), Group("Parenthesis", <<>>),
      Group("Brace", <<Ident("x"), Punct(";", "Alone")>>)>>

ItemC == <<Ident("mod"), Ident("C"), Group("Brace", <<>>)>>

ItemD ==
    <<Punct("#", "Alone"),
      Group("Bracket", <<Ident("doc"), Punct("=", "Alone"), LitString(<<" ", "h">>)>>),
      Ident("mod"), Ident("D"),
      Group("Brace", <<Ident("fn"), Ident("x"), Group("Parenthesis", <<>>),
                       Group("Brace", <<>>)>>)>>

ItemPool == {ItemA, ItemB, ItemC, ItemD}

InnerDoc(s) ==
    [style |-> "Inner", path |-> "doc",
     tokens |-> <<Punct("=", "Alone"), LitString(s)>>]

InnerAllow ==
    [style |-> "Inner", path |-> "allow",
     tokens |-> <<Group("Parenthesis", <<Ident("unused")>>)>>]

RootAttrs == { <<>>, <<InnerDoc(<<" ", "r">>)>>, <<InnerAllow, InnerDoc(<<" ", "r">>)>> }

RootShebangs == { <<>>, <<"#!/bin/sh">> }

InitPrinter ==
    /\ pc = "start"
    /\ file \in { File(sh, as, is) :
                    sh \in RootShebangs, as \in RootAttrs,
                    is \in SeqsUpTo(ItemPool, MaxItems) }
    /\ printed = <<>>
    /\ IdleTokens /\ IdleManifest /\ IdleBundle

PrintFile ==
    /\ pc = "start"
    /\ IF fmt_panics(file)
       THEN pc' = "panicked" /\ printed' = printed
       ELSE pc' = "done" /\ printed' = fmt(file)
    /\ UNCHANGED <<file, tokens, out, content, attrs>>
    /\ UNCHANGED bundleVars

NextPrinter == PrintFile

SpecPrinter == InitPrinter /\ [][NextPrinter]_vars

\* The names of the items, read off a text or off an item.
ItemNames == {"A", "B", "C", "D"}

NamesIn(t) == SelectSeq(t, LAMBDA p : p \in ItemNames)

NameOf(item) == NamesIn(Flatten([i \in 1..Len(item) |-> item[i].text]))[1]

\* Where a member ends in a text: at a ';' or a closing brace outside all braces.
Count(t, p, ch) == Cardinality({i \in 1..p : t[i] = ch})

MemberEnds(t) ==
    {p \in 1..Len(t) :
        \/ t[p] = ";" /\ Count(t, p, "{") = Count(t, p, "}")
        \/ t[p] = "}" /\ Count(t, p, "{") = Count(t, p, "}")}

\* the number of line breaks that follow position p directly
NewlinesAfter(t, p) ==
    LET stops == {q \in (p + 1)..Len(t) : t[q] # "\n"}
    IN IF stops = {} THEN Len(t) - p
       ELSE (CHOOSE q \in stops : \A r \in stops : q <= r) - p - 1

EndsEmptyBrace(t, p) ==
    p > 3 /\ t[p] = "}" /\ t[p - 1] = " " /\ t[p - 2] = "\n" /\ t[p - 3] = "{"

\* C9 as stated: the members come in declaration order, and each is followed
\* by exactly one blank line (its own line end and one empty line).
C9_OneBlankLineAfterEachMember ==
    pc = "done" =>
        /\ NamesIn(printed) = [i \in 1..Len(file.items) |-> NameOf(file.items[i])]
        /\ \A p \in MemberEnds(printed) : NewlinesAfter(printed, p) = 2

\* C9 amended: the members come in declaration order, never reordered; fmt
\* writes two line breaks after each member's rendering, which itself ends
\* with line breaks, so a member ending with ';' or an empty brace group is
\* followed by two blank lines and one ending with a non-empty brace group
\* by three.
C9_OrderAndSeparator ==
    pc = "done" =>
        /\ NamesIn(printed) = [i \in 1..Len(file.items) |-> NameOf(file.items[i])]
        /\ Cardinality(MemberEnds(printed)) = Len(file.items)
        /\ \A p \in MemberEnds(printed) :
              NewlinesAfter(printed, p) =
                 IF printed[p] = ";" \/ EndsEmptyBrace(printed, p) THEN 3 ELSE 4

C9_Witness ==
    /\ pc = "done"
    /\ file.items = <<ItemB, ItemA>>
    /\ NamesIn(printed) = <<"B", "A">>
    /\ \E p \in MemberEnds(printed) : printed[p] = "}" /\ NewlinesAfter(printed, p) = 4

(***************************************************************************)
(* The Bundler.                                                            *)
(*                                                                         *)
(* world is what the run cannot change: which source files load and what   *)
(* they hold, whether the output directory and the target file can be      *)
(* created, the file system before the run, and the manifest file.         *)
(* fs is the file system: whether the target's parent directory exists,    *)
(* and the target file (<<>> when absent, <<text>> when present).          *)
(***************************************************************************)
Crate(n, p) == [name |-> n, path |-> p]

Ev(op, arg) == [op |-> op, arg |-> arg]

BinaryPath == "main.rs"

Directive == "#!/usr/bin/env -S rust-script"

Trailer == "// vim: ft=rust syntax=rust"

\* the Bundler that new_with_dir builds
NewBundler(ms, lib) == [crates |-> <<>>, manifest_str |-> ms, lib |-> lib]

with_lib(b) ==
    IF b.lib # <<>> THEN [b EXCEPT !.crates = Append(@, b.lib[1])] ELSE b

with_crate_at(b, n, p) == [b EXCEPT !.crates = Append(@, Crate(n, p))]

\* inline_module: <<>> for Err, <<file>> for Ok(file)
inline_module_NeverFails(w, path) ==
    <<IF path = BinaryPath THEN w.root ELSE w.libs[path]>>

inline_module(w, path) ==
    IF path \in w.broken THEN <<>>
    ELSE <<IF path = BinaryPath THEN w.root ELSE w.libs[path]>>

\* modulize_crate is todo!(): it panics and returns nothing (<<>>)
modulize_crate(name, f) == <<>>

\* binary.attrs.splice(..0, new)
SpliceFront_AtBack(old, new) == old \o new

SpliceFront(old, new) == new \o old

\* the three statements that merge: extend items, set shebang, splice attrs
Merged(bin, ls, ms) ==
    [items   |-> bin.items \o ls,
     shebang |-> <<Directive>>,
     attrs   |-> SpliceFront(bin.attrs, new_manifest_comment(ms))]

\* writeln!(bundle, "{}", binary.print()) and writeln!(bundle, <trailer>)
TargetText(bin) == fmt(bin) \o <<"\n">> \o <<Trailer, "\n">>

(***************************************************************************)
(* Spec: the builder calls and the steps of Bundler::bundle.               *)
(***************************************************************************)
CrateNames == {"lib1", "lib2"}
CratePaths == {"lib1.rs", "lib2.rs"}

LibUnits ==
    [p \in CratePaths |->
        IF p = "lib1.rs" THEN File(<<>>, <<InnerDoc(<<" ", "l">>)>>, <<ItemC>>)
        ELSE File(<<"#!/bin/sh">>, <<>>, <<ItemA, ItemD>>)]

RootUnits ==
    { File(<<>>, <<>>, <<ItemA, ItemB>>),
      File(<<"#!/bin/sh">>, <<InnerAllow, InnerDoc(<<" ", "r">>)>>, <<ItemB>>),
      File(<<>>, <<>>, <<>>) }

ManifestTexts == { <<>>, <<"a">>, <<"a", "\n", "\"", "\n">> }

OldText == <<"old", "\n">>

FileSystems ==
    { [dir |-> FALSE, target |-> <<>>],
      [dir |-> TRUE, target |-> <<>>],
      [dir |-> TRUE, target |-> <<OldText>>] }

World(r, br, d, f, fs0, m) ==
    [root |-> r, libs |-> LibUnits, broken |-> br, dir_ok |-> d, file_ok |-> f,
     fs0 |-> fs0, manifest |-> m]

Worlds ==
    { World(r, br, d, f, fs0, <<>>) :
        r \in RootUnits, br \in SUBSET (CratePaths \cup {BinaryPath}),
        d \in BOOLEAN, f \in BOOLEAN, fs0 \in FileSystems }

Init ==
    /\ pc = "configured"
    /\ world \in Worlds
    /\ bundler \in { NewBundler(ms, lib) :
                       ms \in ManifestTexts,
                       lib \in {<<>>, <<Crate("lib1", "lib1.rs")>>} }
    /\ binary = <<>> /\ libs = <<>> /\ result = "none"
    /\ fs = world.fs0
    /\ events = <<>>
    /\ cli = <<>>
    /\ IdleTokens /\ IdleManifest /\ IdlePrinter

WithLib ==
    /\ pc = "configured"
    /\ Len(bundler.crates) < MaxCrates
    /\ bundler' = with_lib(bundler)
    /\ UNCHANGED <<pc, world, binary, libs, result, fs, events, cli>>
    /\ UNCHANGED printerVars

WithCrateAt ==
    /\ pc = "configured"
    /\ Len(bundler.crates) < MaxCrates
    /\ \E n \in CrateNames, p \in CratePaths : bundler' = with_crate_at(bundler, n, p)
    /\ UNCHANGED <<pc, world, binary, libs, result, fs, events, cli>>
    /\ UNCHANGED printerVars

\* bundle, lines 132-135: fs::create_dir_all(target.parent())
BundleCreateDir ==
    /\ pc \in {"configured", "bundle"}
    /\ events' = Append(events, Ev("create_dir_all", "out"))
    /\ IF fs.dir \/ world.dir_ok
       THEN /\ fs' = [fs EXCEPT !.dir = TRUE]
            /\ pc' = "load_root" /\ result' = result
       ELSE /\ fs' = fs
            /\ pc' = "returned" /\ result' = "Err"
    /\ UNCHANGED <<world, bundler, binary, libs, cli>>
    /\ UNCHANGED printerVars

\* bundle, line 138: inline_module(&self.binary_path)?
BundleLoadRoot ==
    /\ pc = "load_root"
    /\ events' = Append(events, Ev("inline_module", BinaryPath))
    /\ LET r == inline_module(world, BinaryPath)
       IN IF r = <<>>
          THEN pc' = "returned" /\ result' = "Err" /\ binary' = binary
          ELSE pc' = "load_aux" /\ result' = result /\ binary' = r
    /\ UNCHANGED <<world, bundler, libs, fs, cli>>
    /\ UNCHANGED printerVars

\* bundle, lines 141-149: one turn of the map over self.crates, or its end
BundleLoadAux ==
    /\ pc = "load_aux"
    /\ LET i == Len(libs) + 1
       IN IF i > Len(bundler.crates)
          THEN pc' = "merge" /\ UNCHANGED <<result, libs, events>>
          ELSE LET c == bundler.crates[i]
                   lib == inline_module(world, c.path)
                   m == IF lib = <<>> THEN <<>> ELSE modulize_crate(c.name, lib[1])
               IN IF lib = <<>>
                  THEN /\ pc' = "returned" /\ result' = "Err" /\ libs' = libs
                       /\ events' = Append(events, Ev("inline_module", c.path))
                  ELSE /\ events' = events \o <<Ev("inline_module", c.path),
                                                Ev("modulize_crate", c.name)>>
                       /\ IF m = <<>>
                          THEN pc' = "returned" /\ result' = "Panic" /\ libs' = libs
                          ELSE pc' = pc /\ result' = result /\ libs' = Append(libs, m[1])
    /\ UNCHANGED <<world, bundler, binary, fs, cli>>
    /\ UNCHANGED printerVars

\* bundle, lines 152-160
BundleMerge ==
    /\ pc = "merge"
    /\ binary' = <<Merged(binary[1], libs, bundler.manifest_str)>>
    /\ events' = Append(events, Ev("merge", ""))
    /\ pc' = "render"
    /\ UNCHANGED <<world, bundler, libs, result, fs, cli>>
    /\ UNCHANGED printerVars

\* bundle, lines 163-175
BundleRender ==
    /\ pc = "render"
    /\ IF world.file_ok
       THEN /\ fs' = [fs EXCEPT !.target = <<TargetText(binary[1])>>]
            /\ events' = events \o <<Ev("File::create", "target"), Ev("write", "target")>>
            /\ result' = "Ok"
       ELSE /\ fs' = fs
            /\ events' = Append(events, Ev("File::create", "target"))
            /\ result' = "Err"
    /\ pc' = "returned"
    /\ UNCHANGED <<world, bundler, binary, libs, cli>>
    /\ UNCHANGED printerVars

Next ==
    \/ WithLib
    \/ WithCrateAt
    \/ BundleCreateDir
    \/ BundleLoadRoot
    \/ BundleLoadAux
    \/ BundleMerge
    \/ BundleRender

Spec == Init /\ [][Next]_vars

(***************************************************************************)
(* Claims about Bundler::bundle.                                           *)
(***************************************************************************)
\* some unit of this run does not load
LoadFails ==
    \/ BinaryPath \in world.broken
    \/ \E i \in 1..Len(bundler.crates) : bundler.crates[i].path \in world.broken

\* the directory and the target file can be written
IoFine == (world.fs0.dir \/ world.dir_ok) /\ world.file_ok

EventsOf(op) == {i \in 1..Len(events) : events[i].op = op}

\* the named scope of section 4.4: mod name { the unit's members }
ScopeOf(name, unit) ==
    <<Ident("mod"), Ident(name), Group("Brace", Flatten(unit.items))>>

\* C1: when the root unit or any auxiliary unit fails to load, bundle returns
\* a failure and the target file is neither created nor modified.
C1_LoadFailureReturnsErr ==
    (pc = "returned" /\ LoadFails) =>
        (result = "Err" /\ fs.target = world.fs0.target)

\* C2: root items A, B and the auxiliary units lib1, lib2 registered in that
\* order, all loadable: bundle completes and the merged root's members are
\* A, B, lib1 as a scope, lib2 as a scope.
C2_AuxScopesAfterRootItems ==
    ( /\ pc = "returned"
      /\ world.broken = {} /\ IoFine
      /\ world.root.items = <<ItemA, ItemB>>
      /\ bundler.crates = <<Crate("lib1", "lib1.rs"), Crate("lib2", "lib2.rs")>> )
    => ( /\ result = "Ok"
         /\ binary[1].items =
              <<ItemA, ItemB, ScopeOf("lib1", world.libs["lib1.rs"]),
                ScopeOf("lib2", world.libs["lib2.rs"])>> )

\* C6: every call of modulize_crate returns one named scope, named by the
\* name given, holding the unit's members in their order (and nothing of the
\* unit's attributes or shebang).
C6_ModulizeReturnsOneScope ==
    /\ Len(libs) = Cardinality(EventsOf("modulize_crate"))
    /\ \A k \in 1..Len(libs) :
          libs[k] = ScopeOf(bundler.crates[k].name, world.libs[bundler.crates[k].path])

\* The lines of a text, the blank ones left out.
NonBlankLines(t) == SelectSeq(Lines(t), LAMBDA l : l # <<>>)

\* the documentation line that carries one line of the fenced manifest
DocLineFor(l) == <<"//!", "=", " ">> \o LitString(<<" ">> \o l).text

FencedManifestLines(ms) ==
    <<DocLineFor(OpenFence)>>
    \o [k \in 1..LineCount(ms) |-> DocLineFor(NthLine(ms, k))]
    \o <<DocLineFor(CloseFence)>>

BundledAlone == pc = "returned" /\ result = "Ok" /\ bundler.crates = <<>>

AbortedLoading ==
    /\ pc = "returned" /\ events # <<>>
    /\ events[Len(events)].op \in {"inline_module", "modulize_crate"}

C10_FileSystemOnlyWhenRendering ==
    /\ \A i \in EventsOf("create_dir_all") \cup EventsOf("File::create") :
          \E j \in EventsOf("merge") : j < i
    /\ AbortedLoading => fs = world.fs0

\* C10 amended: bundle first creates the parent directories, then loads the
\* root unit, then loads (and modulizes) the auxiliary units in their order,
\* then merges, and only then opens the target file; a bundle that aborts
\* while loading has not created or modified the target file, though it has
\* created the parent directories when they were missing.
C10_StageOrder ==
    /\ EventsOf("create_dir_all") \subseteq {1}
    /\ events # <<>> => events[1].op = "create_dir_all"
    /\ Len(events) >= 2 => events[2] = Ev("inline_module", BinaryPath)
    /\ \A i \in EventsOf("merge") :
          {events[j].arg : j \in {k \in EventsOf("inline_module") : k < i}}
             = {BinaryPath} \cup {bundler.crates[k].path : k \in 1..Len(bundler.crates)}
    /\ \A i \in EventsOf("File::create") : i > 1 /\ events[i - 1].op = "merge"
    /\ Cardinality(EventsOf("merge")) <= 1
    /\ AbortedLoading => (fs.target = world.fs0.target /\ fs.dir)
    /\ LoadFails => (EventsOf("File::create") = {} /\ fs.target = world.fs0.target)

C10_Witness ==
    /\ AbortedLoading /\ result = "Err"
    /\ ~world.fs0.dir /\ fs.dir
    /\ fs.target = <<>>

(***************************************************************************)
(* SpecCli: the command line program.  cli holds the arguments after the   *)
(* program name, the exit code (-1 while the process runs) and what was    *)
(* written to the error stream.                                            *)
(***************************************************************************)
CliArgs ==
    { <<>>, <<"crate">>, <<"crate", "main.rs">>,
      <<"crate", "main.rs", "out/x.rs">>, <<"crate", "main.rs", "/">>,
      <<"crate", "main.rs", "out/x.rs", "extra">> }

CliWorlds ==
    { World(r, br, d, f, fs0, m) :
        r \in RootUnits, br \in SUBSET {BinaryPath},
        d \in BOOLEAN, f \in BOOLEAN, fs0 \in FileSystems,
        m \in {<<>>} \cup {<<ms>> : ms \in ManifestTexts} }

InitCli ==
    /\ pc = "main"
    /\ world \in CliWorlds
    /\ cli \in { [args |-> a, exit_code |-> -1, stderr |-> <<>>] : a \in CliArgs }
    /\ bundler = <<>> /\ binary = <<>> /\ libs = <<>> /\ result = "none"
    /\ fs = world.fs0
    /\ events = <<>>
    /\ IdleTokens /\ IdleManifest /\ IdlePrinter

\* Path::parent() and Path::file_name() of the target argument are both Some
HasParentAndName(t) == t # "/"

\* try_main up to the call of bundle: the match on the arguments, the two
\* unwraps, Bundler::new_with_dir
CliMain ==
    /\ pc = "main"
    /\ IF Len(cli.args) # 3
       THEN pc' = "returned" /\ result' = "Err" /\ bundler' = bundler
       ELSE IF ~HasParentAndName(cli.args[3])
       THEN pc' = "returned" /\ result' = "Panic" /\ bundler' = bundler
       ELSE IF world.manifest = <<>>
       THEN pc' = "returned" /\ result' = "Err" /\ bundler' = bundler
       ELSE /\ pc' = "bundle" /\ result' = result
            /\ bundler' = NewBundler(world.manifest[1], <<>>)
    /\ UNCHANGED <<world, binary, libs, fs, events, cli>>
    /\ UNCHANGED printerVars

\* main: eprintln!("{:?}", e) on Err and a normal return; a panic unwinds out
\* of main, which prints the panic message and exits with the runtime's code
ExitCode(res) == IF res = "Panic" THEN 101 ELSE 0

ErrorStream(res) ==
    CASE res = "Err"   -> <<"error">>
      [] res = "Panic" -> <<"panic message">>
      [] OTHER         -> <<>>

CliExit ==
    /\ pc = "returned"
    /\ cli # <<>>
    /\ cli' = [cli EXCEPT !.exit_code = ExitCode(result), !.stderr = ErrorStream(result)]
    /\ pc' = "exited"
    /\ UNCHANGED <<world, bundler, binary, libs, result, fs, events>>
    /\ UNCHANGED printerVars

NextCli ==
    \/ CliMain
    \/ BundleCreateDir
    \/ BundleLoadRoot
    \/ BundleLoadAux
    \/ BundleMerge
    \/ BundleRender
    \/ CliExit

SpecCli == InitCli /\ [][NextCli]_vars

\* C7: the program exits with a nonzero code and an error description on the
\* error stream on every failure, and with code zero and no output on success.
C7_ExitCodeTellsFailure ==
    pc = "exited" =>
        IF result = "Ok"
        THEN cli.exit_code = 0 /\ cli.stderr = <<>>
        ELSE cli.exit_code # 0 /\ cli.stderr # <<>>

====
